---- MODULE Spec2Model ----
(***************************************************************************)
(* Offline-first resilience subsystem of tiko-events: the background sync  *)
(* queue (src/lib/background-sync.ts), the failed-requests partition of    *)
(* the IndexedDB store (src/lib/offline-storage.ts) and the service        *)
(* worker's replay of failed requests (public/sw.js).                      *)
(***************************************************************************)
EXTENDS Integers, Sequences, FiniteSets, TLC

\* ------------------------------------------------------------------ bounds
MaxOps == 2          \* addOperation calls in one behaviour
MaxPasses == 2       \* performSync invocations that can be suspended at once
MaxTime == 2         \* Date.now() ranges over 0..MaxTime at most
MaxRestarts == 1     \* page reloads in one behaviour
EventCap == 2        \* the event and request counters saturate here
MaxAge == 1          \* clearExpiredCache's default max age, in clock ticks
MaxIds == 2          \* ids of the cached entities of one partition
MaxCalls == 3        \* fetch events the service worker handles in one behaviour
MaxKeys == 3         \* keys the failed-requests partition generates for direct writes
MaxPosts == 2        \* posts of a subscription to the server in one behaviour
MaxAsks == 2         \* requestPermission calls in one behaviour

\* ------------------------------------------------------- program constants
DefaultMaxRetries == 3
retryDelays == <<1000, 5000, 15000, 30000, 60000>>
OnlineDelay == 1000
priorityOrder == [high |-> 3, medium |-> 2, low |-> 1]

\* HTTP outcomes of fetch: 0 is a rejected fetch (network error), 204 stands
\* for a 2xx response whose body is not JSON.
NetworkError == 0
Responses == {NetworkError, 200, 204, 404, 429, 503}

\* What performSync can tell of a settled fetch: the 2xx with a JSON body, the
\* 2xx whose response.json() rejects, the 4xx other than 408 and 429, the rest.
outcome(status) ==
    IF status = 200 THEN "ok"
    ELSE IF status \in 200..299 THEN "nojson"
    ELSE IF status \in 400..499 /\ status # 408 /\ status # 429 THEN "client"
    ELSE "retryable"

\* Endpoints are paths, one string per segment.
OrdersCreate == <<"api", "orders", "create">>
OrdersCart == <<"api", "orders", "cart">>
UsersPreferences == <<"api", "users", "preferences">>

\* Arguments of addOperation, as queueOrderCreation, queueCartUpdate and
\* queueUserPreferencesUpdate give them, with maxRetries of the caller's choice.
OperationInputs ==
    { [type |-> "order", action |-> "create", endpoint |-> OrdersCreate,
       method |-> "POST", priority |-> "high", maxRetries |-> 2],
      [type |-> "cart", action |-> "update", endpoint |-> OrdersCart,
       method |-> "PUT", priority |-> "medium", maxRetries |-> 1],
      [type |-> "user-preference", action |-> "update",
       endpoint |-> UsersPreferences, method |-> "PATCH", priority |-> "low",
       maxRetries |-> 0] }

Payments == <<"api", "payments">>
TicketsOne == <<"api", "tickets", "1">>

\* The arguments the queue helpers give addOperation: queueOrderCreation,
\* queuePayment, queueCartUpdate, queueTicketUpdate, queueUserPreferencesUpdate.
QueueHelperInputs ==
    { [type |-> "order", action |-> "create", endpoint |-> OrdersCreate,
       method |-> "POST", priority |-> "high", maxRetries |-> 5],
      [type |-> "payment", action |-> "create", endpoint |-> Payments,
       method |-> "POST", priority |-> "high", maxRetries |-> 5],
      [type |-> "cart", action |-> "update", endpoint |-> OrdersCart,
       method |-> "PUT", priority |-> "medium", maxRetries |-> 3],
      [type |-> "ticket", action |-> "update", endpoint |-> TicketsOne,
       method |-> "PATCH", priority |-> "medium", maxRetries |-> 3],
      [type |-> "user-preference", action |-> "update",
       endpoint |-> UsersPreferences, method |-> "PATCH", priority |-> "low",
       maxRetries |-> 2] }

\* What response.json() gives the success handler: the id of response.order
\* (0 for none), the ids of response.tickets, and response.orderId (0 for none).
NoBody == [order |-> 0, tickets |-> {}, orderId |-> 0]
ResponseBodies == [order : 0..1, tickets : SUBSET {1}, orderId : 0..1]

VARIABLES
    online,          \* navigator.onLine
    now,             \* Date.now()
    initialized,     \* initialize() has loaded the queue and added the listeners
    syncInProgress,  \* BackgroundSyncManager.syncInProgress
    syncQueue,       \* BackgroundSyncManager.syncQueue: sequence of object handles
    heap,            \* the SyncOperation objects, by handle
    adds,            \* addOperation calls suspended in storePendingOperation
    passes,          \* performSync invocations, by slot
    timers,          \* delays of the pending scheduleSync timers
    store,           \* records of the failed-requests partition
    nextKey,         \* key generator of the failed-requests partition
    clearing,        \* clearQueue is suspended in offlineStorage.clear
    swResult,        \* how the service worker's last syncFailedRequests ended
    limits,          \* the explored configuration: fixed by the initial state
                     \* (history: cleared and backoff are kept)
    nextOp,          \* history: operations enqueued so far, plus one
    restarts,        \* history: page reloads so far
    sent,            \* history: network requests sent, per enqueued operation
    events,          \* history: SYNC_SUCCESS / SYNC_FAILED emitted, per operation
    entities,        \* records of the events, orders and tickets partitions
    caches,          \* the service worker's CacheStorage: cache name -> url -> response
    puts,            \* cache.put calls the handlers did not await, still running
    result,          \* history: the last fetch handler call and how it settled
    calls,           \* history: fetch handler calls so far
    dbVersion,       \* version of the TiKoOfflineDB database, 0 before it exists
    lastPut,         \* history: the last write call on the Durable Store
    cleared,         \* history: operations enqueued before a clearQueue completed
    backoff,         \* history: operations whose latest retry timer is pending
    permission,      \* Notification.permission
    swRegistration,  \* NotificationManager.swRegistration is set
    subscription,    \* NotificationManager.subscription
    pushSubscription,\* the subscription the platform's pushManager holds
    transmitted,     \* history: how the posts to /api/notifications/subscribe ended
    asked,           \* history: answers Notification.requestPermission has given
    scheduled,       \* records of the scheduled-notifications store
    shown            \* history: notifications shown, per tag

vars == <<online, now, initialized, syncInProgress, syncQueue, heap, adds,
          passes, timers, store, nextKey, clearing, swResult, limits, nextOp,
          restarts, sent, events, entities, caches, puts, result, calls,
          dbVersion, lastPut, cleared, backoff, permission, swRegistration,
          subscription, pushSubscription, transmitted, asked, scheduled,
          shown>>

\* The variables of the service worker's fetch handlers.
swVars == <<caches, puts, result, calls, dbVersion>>

\* The variables of the notification manager.
pushVars == <<permission, swRegistration, subscription, pushSubscription,
              transmitted, asked, scheduled, shown>>

\* The variables the sync queue and the fetch handlers leave alone.
appVars == <<lastPut, pushVars>>

\* ------------------------------------------------------------- helpers
Min(a, b) == IF a < b THEN a ELSE b

Range(s) == {s[i] : i \in 1..Len(s)}

RECURSIVE SeqOfSet(_)
\* A set of records with distinct ids as a sequence in key order (getAll).
SeqOfSet(S) ==
    IF S = {} THEN <<>>
    ELSE LET r == CHOOSE x \in S : \A y \in S : x.id <= y.id
         IN <<r>> \o SeqOfSet(S \ {r})

\* String.prototype.includes on a path, segment-wise.
includes(url, part) ==
    \E i \in 0..(Len(url) - Len(part)) :
        \A j \in 1..Len(part) : url[i + j] = part[j]

\* IndexedDB keys are typed: the number n and the string "n" are two keys.
NumberKey(n) == [type |-> "number", val |-> n]
toString(n) == [type |-> "string", val |-> n]
SyncId(n) == [type |-> "sync", val |-> n]

\* ------------------------------------------------ offline-storage.ts
\* OfflineStorage.delete on the failed-requests partition.
delete(records, key) == {r \in records : NumberKey(r.id) # key}

\* OfflineStorage.get on the failed-requests partition (the set of matches).
get(records, key) == {r \in records : NumberKey(r.id) = key}

addFailedRequest(request) ==
    [request EXCEPT !.retryCount = 0, !.maxRetries = DefaultMaxRetries]

removeFailedRequest(records, id) == delete(records, toString(id))

updateFailedRequest(records, id, retryCount) ==
    LET existing == get(records, toString(id))
    IN IF existing # {}
       THEN (records \ existing) \cup
            {[r EXCEPT !.retryCount = retryCount] : r \in existing}
       ELSE records

\* ------------------------------------------------ background-sync.ts
inferPriority(url) ==
    IF includes(url, <<"payments">>) \/ includes(url, <<"orders", "create">>)
    THEN "high"
    ELSE IF includes(url, <<"orders">>) \/ includes(url, <<"tickets">>)
         THEN "medium"
         ELSE "low"

inferOperationType(url) ==
    IF includes(url, <<"orders">>) THEN "order"
    ELSE IF includes(url, <<"payments">>) THEN "payment"
    ELSE IF includes(url, <<"tickets">>) THEN "ticket"
    ELSE IF includes(url, <<"cart">>) THEN "cart"
    ELSE IF includes(url, <<"users">>) \/ includes(url, <<"profile">>)
         THEN "user-preference"
         ELSE "order"

inferAction(method) ==
    CASE method = "POST" -> "create"
      [] method \in {"PUT", "PATCH"} -> "update"
      [] method = "DELETE" -> "delete"
      [] OTHER -> "create"

convertFailedRequestToOperation(request) ==
    [id |-> toString(request.id),
     type |-> inferOperationType(request.url),
     action |-> inferAction(request.method),
     endpoint |-> request.url,
     method |-> request.method,
     priority |-> inferPriority(request.url),
     retryCount |-> request.retryCount,
     maxRetries |-> request.maxRetries,
     timestamp |-> request.timestamp,
     origin |-> request.origin]

\* The comparator with the priorities subtracted the other way round.
compareAscending(a, b) ==
    LET priorityDiff == priorityOrder[a.priority] - priorityOrder[b.priority]
    IN IF priorityDiff # 0 THEN priorityDiff ELSE a.timestamp - b.timestamp

\* The comparator of performSync's sort.
compare(a, b) ==
    LET priorityDiff == priorityOrder[b.priority] - priorityOrder[a.priority]
    IN IF priorityDiff # 0 THEN priorityDiff ELSE a.timestamp - b.timestamp

RECURSIVE insert(_, _)
\* Array.prototype.sort is stable: h goes after every element not after it.
insert(s, h) ==
    IF s = <<>> THEN <<h>>
    ELSE IF compare(heap[s[Len(s)]], heap[h]) <= 0
         THEN Append(s, h)
         ELSE Append(insert(SubSeq(s, 1, Len(s) - 1), h), s[Len(s)])

RECURSIVE sort(_)
sort(q) ==
    IF q = <<>> THEN <<>>
    ELSE insert(sort(SubSeq(q, 1, Len(q) - 1)), q[Len(q)])

\* this.syncQueue.filter(op => op.id !== operation.id)
filterQueue(q, h) == SelectSeq(q, LAMBDA x : heap[x].id # heap[h].id)

\* requests.find(r => r.url === endpoint && r.timestamp === timestamp), then
\* "request && request.id": the key found, 0 for none.
findRequest(records, op) ==
    LET hits == {r \in records : r.url = op.endpoint /\ r.timestamp = op.timestamp}
    IN IF hits = {} THEN 0
       ELSE (CHOOSE r \in hits : \A x \in hits : r.id <= x.id).id

retryDelay(retryCount) ==
    retryDelays[Min(retryCount - 1, Len(retryDelays) - 1) + 1]

\* SyncUtils.shouldRetry, on the status the error message carries.
shouldRetry(op, status) ==
    IF status \in 400..499 /\ status # 408 /\ status # 429 THEN FALSE
    ELSE IF op.retryCount >= op.maxRetries THEN FALSE
    ELSE TRUE

\* The case labels of the switch in handleSuccessfulOperation.
HandledTypes == {"order", "payment", "cart", "user-preference"}

\* handleSuccessfulOperation: the records it writes to the Durable Store, by
\* partition and key (key 0 where the model keeps no keys of the partition).
handleSuccessfulOperation(operation, response, records) ==
    CASE operation.type = "order" ->
            IF operation.action = "create" /\ response.order # 0
            THEN {[store |-> "orders", id |-> response.order]} \cup
                 {[store |-> "tickets", id |-> t] : t \in response.tickets}
            ELSE {}
      [] operation.type = "payment" ->
            IF response.orderId # 0
               /\ \E e \in records : e.store = "orders" /\ e.id = response.orderId
            THEN {[store |-> "orders", id |-> response.orderId]}
            ELSE {}
      [] operation.type = "cart" ->
            IF operation.action = "create"
            THEN {[store |-> "cart-items", id |-> 0]}
            ELSE {}
      [] operation.type = "user-preference" ->
            IF operation.action = "update"
            THEN {[store |-> "user-preferences", id |-> 0]}
            ELSE {}
      [] OTHER -> {}

\* response.ok, and response.json() resolves.
succeeds(status) == status = 200

\* A performSync invocation: where it is suspended (pc), its sortedQueue
\* (snap), the index of its loop and the result it goes on to announce.
\* status and nth are history: the outcome of the last fetch, and the
\* retryCount the failure branch counted.
\* thrown is history too: a write of the success handler has thrown.
IdlePass == [pc |-> "idle", snap |-> <<>>, idx |-> 0, res |-> "none",
             status |-> "none", nth |-> 0, thrown |-> FALSE]

Active(p) == passes[p].pc # "idle"

current(p) == passes[p].snap[passes[p].idx]

Bump(f, o) == [f EXCEPT ![o] = Min(@ + 1, EventCap)]

\* ------------------------------------------------------------ sw.js: requests
STATIC_CACHE == "tiko-static-v1.0.0"
DYNAMIC_CACHE == "tiko-dynamic-v1.0.0"
CacheNames == {STATIC_CACHE, DYNAMIC_CACHE}

CACHE_API_ROUTES ==
    { <<"api", "events">>, <<"api", "categories">>, <<"api", "venues">>,
      <<"api", "auth", "me">> }

OfflineUrl == <<"offline">>

\* The requests of the fetch events: a method, the path of the url, and
\* whether the request carries a body.
ApiEvents == [method |-> "GET", path |-> <<"api", "events">>, body |-> FALSE]
ApiOrders == [method |-> "GET", path |-> <<"api", "orders">>, body |-> FALSE]
StaticAsset == [method |-> "GET", path |-> <<"_next", "static", "app.js">>, body |-> FALSE]
Navigation == [method |-> "GET", path |-> <<"tickets">>, body |-> FALSE]
PostOrder == [method |-> "POST", path |-> <<"api", "orders", "create">>, body |-> TRUE]
DeleteCart == [method |-> "DELETE", path |-> <<"api", "cart">>, body |-> FALSE]

Requests == {ApiEvents, ApiOrders, StaticAsset, Navigation, PostOrder, DeleteCart}

Urls == {r.path : r \in {q \in Requests : q.method = "GET"}} \cup {OfflineUrl}

\* Responses: a status and a body. Undefined is what match resolves with on a
\* miss; Rejected stands for a handler whose promise rejects.
Undefined == [status |-> 0, body |-> "undefined"]
Rejected == [status |-> 0, body |-> "rejected"]
OfflinePage == [status |-> 200, body |-> "offline page"]
OfflineJson == [status |-> 503, body |-> "offline: true"]
AssetUnavailable == [status |-> 503, body |-> "Asset not available offline"]
OfflineText == [status |-> 503, body |-> "Offline"]
Queued == [status |-> 202, body |-> "queued: true"]

\* What fetch settles with: it rejects (status NetworkError), or it resolves
\* with a response of the server.
NetworkFailure == [status |-> NetworkError, body |-> "TypeError"]
NetworkOutcomes ==
    { NetworkFailure, [status |-> 200, body |-> "v1"],
      [status |-> 200, body |-> "v2"], [status |-> 500, body |-> "error"] }

\* response.ok
ok(response) == response.status \in 200..299

\* The CacheStorage calls that can reject in one handler call.
FaultOps == {"open", "match"}

\* url.pathname.startsWith
startsWith(path, prefix) ==
    Len(prefix) <= Len(path) /\ \A i \in 1..Len(prefix) : path[i] = prefix[i]

\* url.pathname.includes('.')
hasDot(path) == path # <<>> /\ path[Len(path)] \in {"app.js"}

\* null, for a subscription; the PushSubscription the platform kept from an
\* earlier session, and the one pushManager.subscribe creates.
Null == "null"
Existing == "existing"
Created == "created"

\* NotificationPermission
Permissions == {"default", "granted", "denied"}

\* How the post of a subscription ends: a 2xx, another status, a rejected fetch.
PostOutcomes == {200, 500, NetworkError}

\* The dates of the events reminders are scheduled for, in clock ticks.
EventDates == 1..3

\* The tags of the notifications: one per reminder id, one for a pushed message.
EventIds == {1, 2}
LeadTimes == {1, 2}
ReminderIds == {<<"reminder", e, t>> : e \in EventIds, t \in LeadTimes}
PushTag == <<"push">>
Tags == ReminderIds \cup {PushTag}

\* No write call yet.
NoPut == [store |-> "none", data |-> <<>>]

NoRequest == [method |-> "NONE", path |-> <<>>, body |-> FALSE]

NoCall == [request |-> NoRequest, network |-> NetworkFailure, faults |-> {},
           response |-> Undefined, fetched |-> FALSE, stored |-> FALSE]

\* ------------------------------------------------------------ initial state
\* The state after the module is imported: the manager is constructed and
\* initialize is suspended on navigator.serviceWorker.ready.
Fresh ==
    /\ online \in BOOLEAN
    /\ now = 0
    /\ initialized = FALSE
    /\ syncInProgress = FALSE
    /\ syncQueue = <<>>
    /\ heap = <<>>
    /\ adds = {}
    /\ passes = [p \in 1..MaxPasses |-> IdlePass]
    /\ timers = {}
    /\ store = {}
    /\ nextKey = 1
    /\ clearing = FALSE
    /\ swResult = "none"
    /\ nextOp = 1
    /\ restarts = 0
    /\ sent = [o \in 1..MaxOps |-> 0]
    /\ events = [t \in {"SYNC_SUCCESS", "SYNC_FAILED"} |-> [o \in 1..MaxOps |-> 0]]
    /\ entities = {}
    /\ caches = [c \in CacheNames |-> [u \in Urls |->
                   IF c = STATIC_CACHE /\ u = OfflineUrl THEN OfflinePage
                   ELSE Undefined]]
    /\ puts = {}
    /\ result = NoCall
    /\ calls = 0
    /\ dbVersion = 0
    /\ lastPut = NoPut
    /\ cleared = [called |-> {}, done |-> {}]
    /\ backoff = {}
    /\ swRegistration = FALSE
    /\ subscription = Null
    /\ transmitted = <<>>
    /\ asked = 0
    /\ scheduled = {}
    /\ shown = [tag \in Tags |-> 0]

\* No permission was asked for and the platform holds no subscription.
Unsubscribed ==
    /\ permission = "default"
    /\ pushSubscription = Null

\* The whole system, one operation and one pass at a time.
Init ==
    /\ Fresh
    /\ Unsubscribed
    /\ limits = [ops |-> 1, passes |-> 1, restarts |-> MaxRestarts,
                 time |-> MaxTime, inputs |-> OperationInputs,
                 responses |-> Responses, bodies |-> {NoBody}, offlineOnly |-> FALSE,
                 history |-> FALSE]

\* One operation, overlapping passes.
InitRace ==
    /\ Fresh
    /\ Unsubscribed
    /\ limits = [ops |-> 1, passes |-> MaxPasses, restarts |-> 0,
                 time |-> 0, inputs |-> OperationInputs,
                 responses |-> Responses, bodies |-> {NoBody}, offlineOnly |-> FALSE,
                 history |-> FALSE]

\* Several operations in the queue; the server answers 200 or 503.
InitQueue ==
    /\ Fresh
    /\ Unsubscribed
    /\ limits = [ops |-> MaxOps, passes |-> 1, restarts |-> 0,
                 time |-> MaxTime - 1, inputs |-> OperationInputs,
                 responses |-> {200, 503}, bodies |-> {NoBody}, offlineOnly |-> FALSE,
                 history |-> FALSE]

\* Operations are enqueued while offline only, and every request is answered
\* with a 2xx or fails with a retryable error.
InitOffline ==
    /\ Fresh
    /\ Unsubscribed
    /\ limits = [ops |-> MaxOps, passes |-> 1, restarts |-> 0,
                 time |-> 0, inputs |-> OperationInputs,
                 responses |-> {r \in Responses : outcome(r) # "client"}, bodies |-> {NoBody},
                 offlineOnly |-> TRUE,
                 history |-> FALSE]

\* ------------------------------------------------------------ performSync
\* performSync up to its first await: the guard, the flag, the sorted copy and
\* the fetch of the first operation.
performSync ==
    IF syncInProgress \/ syncQueue = <<>>
    THEN UNCHANGED <<syncInProgress, passes, sent>>
    ELSE \E p \in 1..limits.passes :
            /\ ~Active(p)
            /\ \A q \in 1..(p - 1) : Active(q)
            /\ LET sortedQueue == sort(syncQueue)
               IN /\ passes' = [passes EXCEPT ![p] =
                        [IdlePass EXCEPT !.pc = "fetch", !.snap = sortedQueue,
                                         !.idx = 1]]
                  /\ sent' = Bump(sent, heap[sortedQueue[1]].origin)
            /\ syncInProgress' = TRUE

\* The end of one iteration of the loop: the fetch of the next operation, or
\* the finally block.
advance(p) ==
    LET pass == passes[p]
    IN IF pass.idx < Len(pass.snap)
       THEN /\ passes' = [passes EXCEPT ![p] =
                  [IdlePass EXCEPT !.pc = "fetch", !.snap = pass.snap,
                                   !.idx = pass.idx + 1]]
            /\ sent' = Bump(sent, heap[pass.snap[pass.idx + 1]].origin)
            /\ UNCHANGED syncInProgress
       ELSE /\ passes' = [passes EXCEPT ![p] = IdlePass]
            /\ syncInProgress' = FALSE
            /\ UNCHANGED sent

\* notifyApp left out of the branch that gives an operation up.
notifySuccessOnly(type, op) ==
    events' = IF type = "SYNC_FAILED" THEN events
              ELSE [events EXCEPT ![type] = Bump(@, op.origin)]

\* window.dispatchEvent of a background-sync event carrying the operation.
notifyApp(type, op) == events' = [events EXCEPT ![type] = Bump(@, op.origin)]

\* The retry branch of performSync after updatePendingOperation.
scheduleRetry(p) ==
    timers' = timers \cup {retryDelay(heap[current(p)].retryCount)}

\* The failure branch of performSync up to its await.
failureBranch(p, status) ==
    LET h == current(p)
        retryCount == heap[h].retryCount + 1
    IN /\ heap' = [heap EXCEPT ![h].retryCount = retryCount]
       /\ IF retryCount >= heap[h].maxRetries
          THEN /\ syncQueue' = filterQueue(syncQueue, h)
               /\ passes' = [passes EXCEPT ![p].pc = "remove",
                                           ![p].res = "SYNC_FAILED",
                                           ![p].status = outcome(status),
                                           ![p].nth = retryCount]
          ELSE /\ passes' = [passes EXCEPT ![p].pc = "update",
                                           ![p].status = outcome(status),
                                           ![p].nth = retryCount]
               /\ UNCHANGED syncQueue

\* fetch settles in executeOperation.
FetchReturns(p, status) ==
    /\ passes[p].pc = "fetch"
    /\ IF succeeds(status)
       THEN /\ passes' = [passes EXCEPT ![p].pc = "merge", ![p].status = outcome(status)]
            /\ UNCHANGED <<heap, syncQueue>>
       ELSE failureBranch(p, status)
    /\ UNCHANGED <<online, now, initialized, syncInProgress, adds, timers, store,
                   nextKey, clearing, swResult, limits, nextOp,
                   restarts, sent, events>>
    /\ UNCHANGED <<entities, swVars>>
    /\ UNCHANGED <<appVars, cleared, backoff>>

\* The writes of handleSuccessfulOperation that have landed when it ends: all
\* of them, or, when one of them throws, those before it (the order is cached
\* before its tickets).
landed(writes, thrown) ==
    IF ~thrown THEN {writes}
    ELSE {w \in SUBSET writes :
            /\ w # writes
            /\ (\E x \in w : x.store = "tickets")
                  => \E x \in w : x.store = "orders"}

\* The handler without its catch: an error of a write rejects its promise.
handlerRethrows(thrown) == ~thrown

\* The promise of handleSuccessfulOperation is fulfilled: its catch logs the
\* error of a write and returns.
handlerFulfilled(thrown) == TRUE

\* response.json() and handleSuccessfulOperation are done: executeOperation
\* returns, and performSync runs its success branch up to its await (or, had
\* the handler rejected, its failure branch).
Merge(p, response, thrown) ==
    /\ passes[p].pc = "merge"
    /\ LET operation == heap[current(p)]
           writes == handleSuccessfulOperation(operation, response, entities)
       IN /\ thrown => writes # {}
          /\ \E kept \in landed(writes, thrown) :
                entities' =
                   {e \in entities :
                       \A w \in kept : ~(w.store = e.store /\ w.id = e.id)}
                   \cup {[store |-> w.store, id |-> w.id, cachedAt |-> now,
                          syncStatus |-> "synced"] :
                            w \in {x \in kept : x.store \in {"orders", "tickets"}}}
    /\ IF handlerFulfilled(thrown)
       THEN /\ syncQueue' = filterQueue(syncQueue, current(p))
            /\ passes' = [passes EXCEPT ![p].pc = "remove",
                                        ![p].res = "SYNC_SUCCESS",
                                        ![p].thrown = thrown]
            /\ UNCHANGED heap
       ELSE failureBranch(p, 200)
    /\ UNCHANGED <<online, now, initialized, syncInProgress, adds, timers,
                   store, nextKey, clearing, swResult, limits, nextOp,
                   restarts, sent, events>>
    /\ UNCHANGED <<swVars, lastPut, pushVars, cleared, backoff>>

\* removePendingOperation has resolved (the request is looked up by url and
\* timestamp and removed by its key); then notifyApp.
RemovePending(p) ==
    /\ passes[p].pc = "remove"
    /\ LET found == findRequest(store, heap[current(p)])
       IN store' = IF found # 0 THEN removeFailedRequest(store, found) ELSE store
    /\ notifyApp(passes[p].res, heap[current(p)])
    /\ advance(p)
    /\ UNCHANGED <<online, now, initialized, syncQueue, heap, adds, timers,
                   nextKey, clearing, swResult, limits, nextOp, restarts>>
    /\ UNCHANGED <<entities, swVars>>
    /\ UNCHANGED <<appVars, cleared, backoff>>

\* updatePendingOperation has resolved (the request is looked up the same way
\* and its retryCount written); then scheduleSync with the retry delay.
UpdatePending(p) ==
    /\ passes[p].pc = "update"
    /\ LET found == findRequest(store, heap[current(p)])
       IN store' = IF found # 0
                   THEN updateFailedRequest(store, found, heap[current(p)].retryCount)
                   ELSE store
    /\ scheduleRetry(p)
    /\ backoff' = IF limits.history THEN backoff \cup {current(p)} ELSE backoff
    /\ advance(p)
    /\ UNCHANGED <<online, now, initialized, syncQueue, heap, adds, nextKey,
                   clearing, swResult, limits, nextOp, restarts, events>>
    /\ UNCHANGED <<entities, swVars>>
    /\ UNCHANGED <<appVars, cleared>>

\* ------------------------------------------------------------ triggers
\* A scheduleSync timer fires.
TimerFires(delay) ==
    /\ delay \in timers
    /\ timers' = timers \ {delay}
    /\ IF online /\ ~syncInProgress
       THEN performSync
       ELSE UNCHANGED <<syncInProgress, passes, sent>>
    /\ backoff' = {h \in backoff : retryDelay(heap[h].retryCount) # delay}
    /\ UNCHANGED <<online, now, initialized, syncQueue, heap, adds, store,
                   nextKey, clearing, swResult, limits, nextOp,
                   restarts, events>>
    /\ UNCHANGED <<entities, swVars>>
    /\ UNCHANGED <<appVars, cleared>>

\* forcSync without the test of navigator.onLine.
forcSyncAnyway(onLine) == "performSync"

\* What forcSync does with navigator.onLine: it returns performSync(), or it
\* throws an Error with this message.
forcSyncOutcome(onLine) ==
    IF onLine THEN "performSync" ELSE "Cannot sync while offline"

\* forcSync: the periodic interval and the foreground handlers of pwa.ts call
\* it; offline it throws.
forcSync ==
    /\ IF forcSyncOutcome(online) = "performSync"
       THEN performSync
       ELSE UNCHANGED <<syncInProgress, passes, sent>>
    /\ UNCHANGED <<online, now, initialized, syncQueue, heap, adds, timers,
                   store, nextKey, clearing, swResult, limits, nextOp,
                   restarts, events>>
    /\ UNCHANGED <<entities, swVars>>
    /\ UNCHANGED <<appVars, cleared, backoff>>

\* The browser's online event; the listener exists once initialize has run.
handleOnline ==
    /\ ~online
    /\ online' = TRUE
    /\ timers' = IF initialized THEN timers \cup {OnlineDelay} ELSE timers
    /\ UNCHANGED <<now, initialized, syncInProgress, syncQueue, heap, adds,
                   passes, store, nextKey, clearing, swResult,
                   limits, nextOp, restarts, sent, events>>
    /\ UNCHANGED <<entities, swVars>>
    /\ UNCHANGED <<appVars, cleared, backoff>>

\* The browser's offline event.
handleOffline ==
    /\ online
    /\ online' = FALSE
    /\ syncInProgress' = IF initialized THEN FALSE ELSE syncInProgress
    /\ UNCHANGED <<now, initialized, syncQueue, heap, adds, passes, timers,
                   store, nextKey, clearing, swResult, limits, nextOp,
                   restarts, sent, events>>
    /\ UNCHANGED <<entities, swVars>>
    /\ UNCHANGED <<appVars, cleared, backoff>>

\* ------------------------------------------------------------ addOperation
\* addOperation up to its await: the new object is pushed on the queue.
\* elapsed is the time that has passed since Date.now() was last read.
addOperation(operation, elapsed) ==
    /\ nextOp <= limits.ops
    /\ limits.offlineOnly => ~online
    /\ now + elapsed <= limits.time
    /\ now' = now + elapsed
    /\ heap' = Append(heap,
          [id |-> SyncId(nextOp),
           type |-> operation.type,
           action |-> operation.action,
           endpoint |-> operation.endpoint,
           method |-> operation.method,
           priority |-> operation.priority,
           retryCount |-> 0,
           maxRetries |-> operation.maxRetries,
           timestamp |-> now + elapsed,
           origin |-> nextOp])
    /\ syncQueue' = Append(syncQueue, Len(heap) + 1)
    /\ adds' = adds \cup {Len(heap) + 1}
    /\ nextOp' = nextOp + 1
    /\ UNCHANGED <<online, initialized, syncInProgress, passes, timers,
                   store, nextKey, clearing, swResult, limits, restarts, sent,
                   events>>
    /\ UNCHANGED <<entities, swVars>>
    /\ UNCHANGED <<appVars, cleared, backoff>>

\* storePendingOperation has resolved: the record is in the partition; then
\* the immediate sync of addOperation.
storePendingOperation(h) ==
    /\ h \in adds
    /\ adds' = adds \ {h}
    /\ store' = store \cup
          {addFailedRequest([id |-> nextKey,
                             url |-> heap[h].endpoint,
                             method |-> heap[h].method,
                             timestamp |-> heap[h].timestamp,
                             retryCount |-> heap[h].retryCount,
                             maxRetries |-> heap[h].maxRetries,
                             origin |-> heap[h].origin])}
    /\ nextKey' = nextKey + 1
    /\ timers' = IF online /\ ~syncInProgress THEN timers \cup {0} ELSE timers
    /\ UNCHANGED <<online, now, initialized, syncInProgress, syncQueue, heap,
                   passes, clearing, swResult, limits, nextOp, restarts, sent,
                   events>>
    /\ UNCHANGED <<entities, swVars>>
    /\ UNCHANGED <<appVars, cleared, backoff>>

\* ------------------------------------------------------------ lifecycle
\* initialize: loadPendingOperations replaces the queue, the listeners are
\* added, and a sync is scheduled when online.
loadPendingOperations ==
    /\ ~initialized
    /\ initialized' = TRUE
    /\ LET failedRequests == SeqOfSet(store)
           loaded == [i \in 1..Len(failedRequests) |->
                        convertFailedRequestToOperation(failedRequests[i])]
       IN /\ heap' = heap \o loaded
          /\ syncQueue' = [i \in 1..Len(loaded) |-> Len(heap) + i]
    /\ timers' = IF online THEN timers \cup {0} ELSE timers
    /\ UNCHANGED <<online, now, syncInProgress, adds, passes, store, nextKey,
                   clearing, swResult, limits, nextOp, restarts, sent, events>>
    /\ UNCHANGED <<entities, swVars>>
    /\ UNCHANGED <<appVars, cleared, backoff>>

\* The page is reloaded: the manager's memory, its timers and its suspended
\* calls are gone; the database stays.
Restart ==
    /\ restarts < limits.restarts
    /\ restarts' = restarts + 1
    /\ initialized' = FALSE
    /\ syncInProgress' = FALSE
    /\ syncQueue' = <<>>
    /\ heap' = <<>>
    /\ adds' = {}
    /\ passes' = [p \in 1..MaxPasses |-> IdlePass]
    /\ timers' = {}
    /\ clearing' = FALSE
    /\ UNCHANGED <<online, now, store, nextKey, swResult, limits, nextOp,
                   sent, events>>
    /\ UNCHANGED <<entities, swVars>>
    /\ backoff' = {}
    /\ UNCHANGED <<appVars, cleared>>

\* getRetryInfo: null for an id that is not in the queue; for the first
\* operation with the id its retryCount and maxRetries, and nextRetryIn while
\* retries are left.
getRetryInfo(operationId) ==
    LET found == {i \in 1..Len(syncQueue) : heap[syncQueue[i]].id = operationId}
    IN IF found = {} THEN Null
       ELSE LET operation ==
                   heap[syncQueue[CHOOSE i \in found : \A j \in found : i <= j]]
            IN IF operation.retryCount < operation.maxRetries
               THEN [retryCount |-> operation.retryCount,
                     maxRetries |-> operation.maxRetries,
                     nextRetryIn |->
                        retryDelays[Min(operation.retryCount,
                                        Len(retryDelays) - 1) + 1]]
               ELSE [retryCount |-> operation.retryCount,
                     maxRetries |-> operation.maxRetries]

\* clearQueue up to its await.
clearQueue ==
    /\ ~clearing
    /\ syncQueue' = <<>>
    /\ clearing' = TRUE
    /\ cleared' = IF limits.history
                  THEN [cleared EXCEPT !.called = 1..(nextOp - 1)]
                  ELSE cleared
    /\ UNCHANGED <<online, now, initialized, syncInProgress, heap, adds, passes,
                   timers, store, nextKey, swResult, limits, nextOp,
                   restarts, sent, events>>
    /\ UNCHANGED <<entities, swVars>>
    /\ UNCHANGED <<appVars, backoff>>

\* offlineStorage.clear('failed-requests') has resolved.
clearStore ==
    /\ clearing
    /\ clearing' = FALSE
    /\ store' = {}
    /\ cleared' = IF limits.history
                  THEN [cleared EXCEPT !.done = @ \cup cleared.called]
                  ELSE cleared
    /\ UNCHANGED <<online, now, initialized, syncInProgress, syncQueue, heap,
                   adds, passes, timers, nextKey, swResult, limits, nextOp,
                   restarts, sent, events>>
    /\ UNCHANGED <<entities, swVars>>
    /\ UNCHANGED <<appVars, backoff>>

\* ------------------------------------------------------------ cached entities
EntityStores == {"events", "orders", "tickets"}

\* OfflineStorage.put on a partition whose keyPath is id.
put(records, data) ==
    {r \in records : ~(r.store = data.store /\ r.id = data.id)} \cup {data}

\* cacheEvent, cacheOrder and cacheTicket: the same body on three partitions.
cache(storeName, id, elapsed) ==
    /\ now + elapsed <= limits.time
    /\ now' = now + elapsed
    /\ entities' = put(entities, [store |-> storeName, id |-> id,
                                  cachedAt |-> now + elapsed,
                                  syncStatus |-> "synced"])
    /\ UNCHANGED <<online, initialized, syncInProgress, syncQueue, heap, adds,
                   passes, timers, store, nextKey, clearing, swResult, limits,
                   nextOp, restarts, sent, events, swVars>>
    /\ UNCHANGED <<appVars, cleared, backoff>>

cacheEvent(id, elapsed) == cache("events", id, elapsed)

cacheOrder(id, elapsed) == cache("orders", id, elapsed)

cacheTicket(id, elapsed) == cache("tickets", id, elapsed)

markForSync(storeName, id) ==
    /\ \E item \in entities :
          /\ item.store = storeName /\ item.id = id
          /\ entities' = put(entities, [item EXCEPT !.syncStatus = "pending"])
    /\ UNCHANGED <<online, now, initialized, syncInProgress, syncQueue, heap,
                   adds, passes, timers, store, nextKey, clearing, swResult,
                   limits, nextOp, restarts, sent, events, swVars>>
    /\ UNCHANGED <<appVars, cleared, backoff>>

\* ------------------------------------------------------------ store writes
\* The records the callers of put write to the events, orders and tickets
\* partitions.
EntityRecords ==
    [store : EntityStores, id : 1..MaxIds, cachedAt : {0},
     syncStatus : {"synced", "pending"}]

\* The requests storePendingOperation hands to addFailedRequest: no id.
FailedRequests ==
    {[url |-> i.endpoint, method |-> i.method, timestamp |-> 0,
      retryCount |-> 0, maxRetries |-> i.maxRetries] : i \in OperationInputs}

\* OfflineStorage.put(storeName, data) on a partition whose keyPath is id.
Put(data) ==
    /\ entities' = put(entities, data)
    /\ lastPut' = [store |-> data.store, data |-> data]
    /\ UNCHANGED <<online, now, initialized, syncInProgress, syncQueue, heap,
                   adds, passes, timers, store, nextKey, clearing, swResult,
                   limits, nextOp, restarts, sent, events, swVars, cleared, backoff,
                   pushVars>>

\* OfflineStorage.addFailedRequest(request): the record has no id, and put on
\* the autoIncrement partition stores it under the next generated key.
AddFailedRequest(request) ==
    /\ nextKey <= MaxKeys
    /\ store' = store \cup
          {addFailedRequest([id |-> nextKey,
                             url |-> request.url,
                             method |-> request.method,
                             timestamp |-> request.timestamp,
                             retryCount |-> request.retryCount,
                             maxRetries |-> request.maxRetries,
                             origin |-> 0])}
    /\ nextKey' = nextKey + 1
    /\ lastPut' = [store |-> "failed-requests", data |-> request]
    /\ UNCHANGED <<online, now, initialized, syncInProgress, syncQueue, heap,
                   adds, passes, timers, clearing, swResult, limits, nextOp,
                   restarts, sent, events, entities, swVars, cleared, backoff,
                   pushVars>>

\* ------------------------------------------------------------ notification.ts
\* NotificationManager.initialize once navigator.serviceWorker.ready has
\* resolved: the registration is kept, the platform's subscription is read
\* and, when there is one, posted to the server.
initializeNotifications(posted) ==
    /\ ~swRegistration
    /\ Len(transmitted) < MaxPosts
    /\ swRegistration' = TRUE
    /\ subscription' = pushSubscription
    /\ transmitted' = IF pushSubscription # Null
                      THEN Append(transmitted, posted)
                      ELSE transmitted
    /\ UNCHANGED <<online, now, initialized, syncInProgress, syncQueue, heap,
                   adds, passes, timers, store, nextKey, clearing, swResult,
                   limits, nextOp, restarts, sent, events, entities, swVars,
                   lastPut, cleared, backoff, permission, pushSubscription, asked,
                   scheduled, shown>>

\* this.subscription assigned only once the server has acknowledged the post.
keptIfAcknowledged(handle, posted) ==
    IF posted \in 200..299 THEN handle ELSE Null

\* this.subscription once sendSubscriptionToServer has settled: the handle is
\* assigned before the post, and the post's catch swallows every failure.
keptSubscription(handle, posted) == handle

\* subscribeToPush: created tells whether pushManager.subscribe resolves.
subscribeToPush(created, posted) ==
    IF ~swRegistration \/ (pushSubscription = Null /\ ~created)
    THEN UNCHANGED <<subscription, pushSubscription, transmitted>>
    ELSE LET handle == IF pushSubscription # Null THEN pushSubscription
                       ELSE Created
         IN /\ pushSubscription' = handle
            /\ subscription' = keptSubscription(handle, posted)
            /\ transmitted' = Append(transmitted, posted)

\* The test of requestPermission with denied left as the only refusal.
subscribesUnlessDenied(answer) == answer # "denied"

\* The test of requestPermission on the permission the platform returns.
subscribes(answer) == answer = "granted"

\* requestPermission from the moment Notification.requestPermission resolves
\* with answer; unsupported browsers make it throw before that.
requestPermission(supported, answer, created, posted) ==
    /\ asked < MaxAsks
    /\ Len(transmitted) < MaxPosts
    /\ permission # "default" => answer = permission
    /\ IF supported
       THEN /\ asked' = asked + 1
            /\ permission' = answer
            /\ IF subscribes(answer)
               THEN subscribeToPush(created, posted)
               ELSE UNCHANGED <<subscription, pushSubscription, transmitted>>
       ELSE UNCHANGED <<asked, permission, subscription, pushSubscription,
                        transmitted>>
    /\ UNCHANGED <<online, now, initialized, syncInProgress, syncQueue, heap,
                   adds, passes, timers, store, nextKey, clearing, swResult,
                   limits, nextOp, restarts, sent, events, entities, swVars,
                   lastPut, cleared, backoff, swRegistration, scheduled, shown>>

\* unsubscribe with a subscription: success is what subscription.unsubscribe
\* resolves with; the failures of notifyServerUnsubscribe are swallowed.
unsubscribe(success) ==
    /\ subscription # Null
    /\ IF success
       THEN subscription' = Null /\ pushSubscription' = Null
       ELSE UNCHANGED <<subscription, pushSubscription>>
    /\ UNCHANGED <<online, now, initialized, syncInProgress, syncQueue, heap,
                   adds, passes, timers, store, nextKey, clearing, swResult,
                   limits, nextOp, restarts, sent, events, entities, swVars,
                   lastPut, cleared, backoff, permission, swRegistration, transmitted,
                   asked, scheduled, shown>>

\* scheduleEventReminder: a reminder whose time is not in the future is
\* dropped with a warning; otherwise storeScheduledNotification puts it under
\* its id, and swallows the failure when the database does not open (stored).
scheduleEventReminder(eventId, eventDate, reminderTime, elapsed, stored) ==
    /\ now + elapsed <= limits.time
    /\ now' = now + elapsed
    /\ LET reminderDateTime == eventDate - reminderTime
           id == <<"reminder", eventId, reminderTime>>
       IN scheduled' =
             IF reminderDateTime <= now' \/ ~stored THEN scheduled
             ELSE {r \in scheduled : r.id # id} \cup
                  {[id |-> id, eventId |-> eventId,
                    reminderTime |-> reminderDateTime,
                    type |-> "event-reminder"]}
    /\ UNCHANGED <<online, initialized, syncInProgress, syncQueue, heap,
                   adds, passes, timers, store, nextKey, clearing, swResult,
                   limits, nextOp, restarts, sent, events, entities, swVars,
                   lastPut, cleared, backoff, permission, swRegistration, subscription,
                   pushSubscription, transmitted, asked, shown>>

\* The service worker's push listener: a message with data is shown under the
\* tag it carries. Nothing in the worker reads scheduled-notifications.
push(tag, elapsed) ==
    /\ now + elapsed <= limits.time
    /\ now' = now + elapsed
    /\ shown' = [shown EXCEPT ![tag] = Min(@ + 1, EventCap)]
    /\ UNCHANGED <<online, initialized, syncInProgress, syncQueue, heap,
                   adds, passes, timers, store, nextKey, clearing, swResult,
                   limits, nextOp, restarts, sent, events, entities, swVars,
                   lastPut, cleared, backoff, permission, swRegistration, subscription,
                   pushSubscription, transmitted, asked, scheduled>>

\* ------------------------------------------------------------ eviction
RECURSIVE removeAll(_, _)
\* The loop of clearExpiredCache over the requests it read.
removeAll(records, ids) ==
    IF ids = {} THEN records
    ELSE LET id == CHOOSE k \in ids : \A x \in ids : k <= x
         IN removeAll(removeFailedRequest(records, id), ids \ {id})

\* clearExpiredCache: the events older than the cutoff are deleted, then the
\* old and the exhausted failed requests are removed by their keys.
clearExpiredCache(maxAge, elapsed) ==
    /\ now + elapsed <= limits.time
    /\ now' = now + elapsed
    /\ LET cutoff == now' - maxAge
           expired == {r \in store :
                          r.timestamp < cutoff \/ r.retryCount >= r.maxRetries}
       IN /\ entities' = {e \in entities :
                            ~(e.store = "events" /\ e.cachedAt < cutoff)}
          /\ store' = removeAll(store, {r.id : r \in expired})
    /\ UNCHANGED <<online, initialized, syncInProgress, syncQueue, heap, adds,
                   passes, timers, nextKey, clearing, swResult, limits, nextOp,
                   restarts, sent, events, swVars>>
    /\ UNCHANGED <<appVars, cleared, backoff>>

\* ------------------------------------------------------------ service worker
\* syncFailedRequests in the service worker. openDB asks for version 1 and
\* rejects once the page has made the database version 2; otherwise "await
\* store.getAll()" yields the IDBRequest itself, which for...of cannot
\* iterate. Either way the function throws before any fetch or delete.
syncFailedRequests ==
    /\ swResult' = "rejected"
    /\ UNCHANGED <<online, now, initialized, syncInProgress, syncQueue, heap,
                   adds, passes, timers, store, nextKey, clearing, limits, nextOp, restarts, sent, events>>
    /\ UNCHANGED <<entities, swVars>>
    /\ UNCHANGED <<appVars, cleared, backoff>>

\* ------------------------------------------------------------ sw.js: fetch
\* caches.match(request): the first hit over the caches in creation order.
match(url) ==
    IF caches[STATIC_CACHE][url] # Undefined THEN caches[STATIC_CACHE][url]
    ELSE caches[DYNAMIC_CACHE][url]

\* What a handler call comes to: the response its promise settles with, the
\* cache.put calls it started, whether it called the network, and whether it
\* added a record to failed-requests.
Settled(response, started, fetched, stored) ==
    [response |-> response, puts |-> started, fetched |-> fetched,
     stored |-> stored]

\* The catch branch without the look into the caches.
apiFallbackSynthesized(request, faults) ==
    IF "match" \in faults THEN Rejected ELSE OfflineJson

\* The catch branch of handleApiRequest.
apiFallback(request, faults) ==
    IF "match" \in faults THEN Rejected
    ELSE IF match(request.path) # Undefined THEN match(request.path)
    ELSE OfflineJson

handleApiRequest(request, networkResponse, faults) ==
    IF networkResponse = NetworkFailure
    THEN Settled(apiFallback(request, faults), {}, TRUE, FALSE)
    ELSE IF ~ok(networkResponse)
    THEN Settled(networkResponse, {}, TRUE, FALSE)
    ELSE IF "open" \in faults
    THEN Settled(apiFallback(request, faults), {}, TRUE, FALSE)
    ELSE IF \E route \in CACHE_API_ROUTES : includes(request.path, route)
    THEN Settled(networkResponse,
                 {[cache |-> DYNAMIC_CACHE, url |-> request.path,
                   response |-> networkResponse]}, TRUE, FALSE)
    ELSE Settled(networkResponse, {}, TRUE, FALSE)

\* The handler of the static assets going to the network first.
handleStaticNetworkFirst(request, networkResponse, faults) ==
    IF faults # {} THEN Settled(Rejected, {}, FALSE, FALSE)
    ELSE IF networkResponse = NetworkFailure
    THEN Settled(IF caches[STATIC_CACHE][request.path] # Undefined
                 THEN caches[STATIC_CACHE][request.path]
                 ELSE AssetUnavailable, {}, TRUE, FALSE)
    ELSE Settled(networkResponse, {}, TRUE, FALSE)

handleStaticRequest(request, networkResponse, faults) ==
    IF faults # {} THEN Settled(Rejected, {}, FALSE, FALSE)
    ELSE IF caches[STATIC_CACHE][request.path] # Undefined
    THEN Settled(caches[STATIC_CACHE][request.path], {}, FALSE, FALSE)
    ELSE IF networkResponse = NetworkFailure
    THEN Settled(AssetUnavailable, {}, TRUE, FALSE)
    ELSE IF ok(networkResponse)
    THEN Settled(networkResponse,
                 {[cache |-> STATIC_CACHE, url |-> request.path,
                   response |-> networkResponse]}, TRUE, FALSE)
    ELSE Settled(networkResponse, {}, TRUE, FALSE)

\* The catch branch without the offline landing document.
navigationFallbackNoPage(request, faults) ==
    IF "match" \in faults THEN Rejected
    ELSE IF match(request.path) # Undefined THEN match(request.path)
    ELSE OfflineText

\* The catch branch of handleNavigationRequest.
navigationFallback(request, faults) ==
    IF "match" \in faults THEN Rejected
    ELSE IF match(request.path) # Undefined THEN match(request.path)
    ELSE IF match(OfflineUrl) # Undefined THEN match(OfflineUrl)
    ELSE OfflineText

handleNavigationRequest(request, networkResponse, faults) ==
    IF networkResponse = NetworkFailure
    THEN Settled(navigationFallback(request, faults), {}, TRUE, FALSE)
    ELSE IF ~ok(networkResponse)
    THEN Settled(networkResponse, {}, TRUE, FALSE)
    ELSE IF "open" \in faults
    THEN Settled(navigationFallback(request, faults), {}, TRUE, FALSE)
    ELSE Settled(networkResponse,
                 {[cache |-> DYNAMIC_CACHE, url |-> request.path,
                   response |-> networkResponse]}, TRUE, FALSE)

\* storeFailedRequest resolves. openDB asks for version 1 and rejects with a
\* VersionError once the page has made the database version 2; fetch(request)
\* has used the body, so request.text() rejects for a request that has one;
\* and store.add throws unless the transaction, created before the await of
\* request.text(), is still active (active).
storeFailedRequest(request, active) ==
    dbVersion <= 1 /\ ~request.body /\ active

handleMutationRequest(request, networkResponse, active) ==
    IF networkResponse # NetworkFailure
    THEN Settled(networkResponse, {}, TRUE, FALSE)
    ELSE IF storeFailedRequest(request, active)
    THEN Settled(Queued, {}, TRUE, TRUE)
    ELSE Settled(Rejected, {}, TRUE, FALSE)

\* The listener of the fetch event chooses the handler respondWith gets.
respondWith(request, networkResponse, faults, active) ==
    IF request.method = "GET"
    THEN IF startsWith(request.path, <<"api">>)
         THEN handleApiRequest(request, networkResponse, faults)
         ELSE IF startsWith(request.path, <<"_next", "static">>)
                 \/ hasDot(request.path)
         THEN handleStaticRequest(request, networkResponse, faults)
         ELSE handleNavigationRequest(request, networkResponse, faults)
    ELSE handleMutationRequest(request, networkResponse, active)

\* A fetch event from its dispatch to the settling of the handler's promise.
fetchEvent(request, networkResponse, faults, active) ==
    /\ calls < MaxCalls
    /\ calls' = calls + 1
    /\ LET settled == respondWith(request, networkResponse, faults, active)
       IN /\ result' = [request |-> request, network |-> networkResponse,
                        faults |-> faults, response |-> settled.response,
                        fetched |-> settled.fetched, stored |-> settled.stored]
          /\ puts' = puts \cup settled.puts
          /\ IF settled.stored
             THEN /\ store' = store \cup
                        {[id |-> nextKey, url |-> request.path,
                          method |-> request.method, timestamp |-> now]}
                  /\ nextKey' = nextKey + 1
                  /\ dbVersion' = 1
             ELSE /\ UNCHANGED <<store, nextKey>>
                  /\ dbVersion' = IF request.method # "GET" /\ dbVersion = 0
                                     /\ networkResponse = NetworkFailure
                                  THEN 1 ELSE dbVersion
    /\ UNCHANGED <<online, now, initialized, syncInProgress, syncQueue, heap,
                   adds, passes, timers, clearing, swResult, limits, nextOp,
                   restarts, sent, events, entities, caches>>
    /\ UNCHANGED <<appVars, cleared, backoff>>

\* A cache.put that no handler awaited settles: the entry is written, or the
\* put rejects and nothing is written.
PutSettles(p, written) ==
    /\ p \in puts
    /\ puts' = puts \ {p}
    /\ caches' = IF written
                 THEN [caches EXCEPT ![p.cache][p.url] = p.response]
                 ELSE caches
    /\ UNCHANGED <<online, now, initialized, syncInProgress, syncQueue, heap,
                   adds, passes, timers, store, nextKey, clearing, swResult,
                   limits, nextOp, restarts, sent, events, entities, result,
                   calls, dbVersion>>
    /\ UNCHANGED <<appVars, cleared, backoff>>

\* clearSpecificCache (the CLEAR_CACHE message): caches.delete.
clearSpecificCache(cacheName) ==
    /\ caches' = [caches EXCEPT ![cacheName] = [u \in Urls |-> Undefined]]
    /\ UNCHANGED <<online, now, initialized, syncInProgress, syncQueue, heap,
                   adds, passes, timers, store, nextKey, clearing, swResult,
                   limits, nextOp, restarts, sent, events, entities, puts,
                   result, calls, dbVersion>>
    /\ UNCHANGED <<appVars, cleared, backoff>>

\* OfflineStorage.initialize in the page: the database is opened with version
\* 2; on the upgrade createStores deletes and recreates every partition.
initialize ==
    /\ dbVersion < 2
    /\ dbVersion' = 2
    /\ store' = {}
    /\ nextKey' = 1
    /\ entities' = {}
    /\ UNCHANGED <<online, now, initialized, syncInProgress, syncQueue, heap,
                   adds, passes, timers, clearing, swResult, limits, nextOp,
                   restarts, sent, events, caches, puts, result, calls>>
    /\ UNCHANGED <<appVars, cleared, backoff>>

\* ------------------------------------------------------------ specification
\* The sync queue manager in the page.
Drain ==
    \/ \E operation \in limits.inputs, elapsed \in 0..1 :
          addOperation(operation, elapsed)
    \/ \E h \in adds : storePendingOperation(h)
    \/ loadPendingOperations
    \/ handleOnline
    \/ handleOffline
    \/ \E delay \in timers : TimerFires(delay)
    \/ forcSync
    \/ \E p \in 1..MaxPasses, status \in limits.responses : FetchReturns(p, status)
    \/ \E p \in 1..MaxPasses, response \in limits.bodies,
          thrown \in BOOLEAN : Merge(p, response, thrown)
    \/ \E p \in 1..MaxPasses : RemovePending(p)
    \/ \E p \in 1..MaxPasses : UpdatePending(p)

Next ==
    \/ Drain
    \/ Restart
    \/ clearQueue
    \/ clearStore
    \/ \E elapsed \in 0..1 : clearExpiredCache(MaxAge, elapsed)
    \/ syncFailedRequests

Spec == Init /\ [][Next]_vars

SpecRace == InitRace /\ [][Drain]_vars

SpecQueue == InitQueue /\ [][Drain]_vars

SpecOffline == InitOffline /\ [][Drain]_vars

\* One operation, a server that answers 200 or 503, and a fair schedule.
InitLive ==
    /\ Fresh
    /\ Unsubscribed
    /\ limits = [ops |-> 1, passes |-> 1, restarts |-> 0, time |-> 0,
                 inputs |-> OperationInputs, responses |-> {200, 503},
                 bodies |-> {NoBody}, offlineOnly |-> FALSE,
                 history |-> FALSE]

\* What starts a pass: the interval of pwa.ts calling forcSync, the timers of
\* scheduleSync, the browser coming back online.
Triggers ==
    \/ forcSync
    \/ \E delay \in timers : TimerFires(delay)
    \/ handleOnline

\* The awaited calls resolve: the network, the store, initialize.
Completions ==
    \/ \E p \in 1..MaxPasses, status \in limits.responses : FetchReturns(p, status)
    \/ \E p \in 1..MaxPasses, response \in limits.bodies,
          thrown \in BOOLEAN : Merge(p, response, thrown)
    \/ \E p \in 1..MaxPasses : RemovePending(p)
    \/ \E p \in 1..MaxPasses : UpdatePending(p)
    \/ \E h \in adds : storePendingOperation(h)
    \/ loadPendingOperations

\* The timers and the interval keep firing and every awaited call returns.
SpecLive ==
    InitLive /\ [][Drain]_vars /\ WF_vars(Triggers) /\ WF_vars(Completions)

\* Several cart updates, a server that answers 200 or 503, and the full data
\* reset calling clearQueue; what each clearQueue cleared is kept.
InitClear ==
    /\ Fresh
    /\ Unsubscribed
    /\ limits = [ops |-> MaxOps, passes |-> 1, restarts |-> 0, time |-> 0,
                 inputs |-> {i \in OperationInputs : i.type = "cart"},
                 responses |-> {200, 503}, bodies |-> {NoBody},
                 offlineOnly |-> FALSE, history |-> TRUE]

Clearing ==
    \/ Drain
    \/ clearQueue
    \/ clearStore

SpecClear == InitClear /\ [][Clearing]_vars

\* Several order creations, a server that answers 200 or 503, and every
\* trigger of a pass; which retry timers are still pending is kept.
InitBackoff ==
    /\ Fresh
    /\ Unsubscribed
    /\ limits = [ops |-> MaxOps, passes |-> 1, restarts |-> 0, time |-> 0,
                 inputs |-> {i \in OperationInputs : i.type = "order"},
                 responses |-> {200, 503}, bodies |-> {NoBody},
                 offlineOnly |-> FALSE, history |-> TRUE]

SpecBackoff == InitBackoff /\ [][Drain]_vars

\* The cached entities and the sweep.
Cache ==
    \/ \E id \in 1..MaxIds, elapsed \in 0..1 : cacheEvent(id, elapsed)
    \/ \E id \in 1..MaxIds, elapsed \in 0..1 : cacheOrder(id, elapsed)
    \/ \E id \in 1..MaxIds, elapsed \in 0..1 : cacheTicket(id, elapsed)
    \/ \E storeName \in EntityStores, id \in 1..MaxIds : markForSync(storeName, id)
    \/ \E elapsed \in 0..1 : clearExpiredCache(MaxAge, elapsed)

SpecCache == Init /\ [][Cache]_vars

\* The fetch handlers of the service worker.
Worker ==
    \/ \E request \in Requests, networkResponse \in NetworkOutcomes,
          faults \in SUBSET FaultOps, active \in BOOLEAN :
          fetchEvent(request, networkResponse, faults, active)
    \/ \E p \in puts, written \in BOOLEAN : PutSettles(p, written)
    \/ \E cacheName \in CacheNames : clearSpecificCache(cacheName)
    \/ initialize

SpecWorker == Init /\ [][Worker]_vars

\* The fetch handlers when every cache write succeeds and no cache is deleted.
Repeat ==
    \/ \E request \in Requests, networkResponse \in NetworkOutcomes :
          fetchEvent(request, networkResponse, {}, TRUE)
    \/ \E p \in puts : PutSettles(p, TRUE)

SpecRepeat == Init /\ [][Repeat]_vars

\* One operation of any of the queue helpers, a server that answers with any
\* body, and orders cached by the page.
InitMerge ==
    /\ Fresh
    /\ Unsubscribed
    /\ limits = [ops |-> 1, passes |-> 1, restarts |-> 0, time |-> 0,
                 inputs |-> QueueHelperInputs, responses |-> {200, 503},
                 bodies |-> ResponseBodies, offlineOnly |-> FALSE,
                 history |-> FALSE]

Merging ==
    \/ Drain
    \/ cacheOrder(1, 0)

SpecMerge == InitMerge /\ [][Merging]_vars

\* The notification manager: any permission the platform can hold, and a
\* subscription kept from an earlier session only where it is granted.
InitPush ==
    /\ Fresh
    /\ permission \in Permissions
    /\ pushSubscription \in {Null, Existing}
    /\ pushSubscription # Null => permission = "granted"
    /\ limits = [ops |-> 1, passes |-> 1, restarts |-> 0, time |-> 0,
                 inputs |-> OperationInputs, responses |-> Responses,
                 bodies |-> {NoBody}, offlineOnly |-> FALSE,
                 history |-> FALSE]

Subscribing ==
    \/ \E posted \in PostOutcomes : initializeNotifications(posted)
    \/ \E supported \in BOOLEAN, answer \in Permissions, created \in BOOLEAN,
          posted \in PostOutcomes :
          requestPermission(supported, answer, created, posted)
    \/ \E success \in BOOLEAN : unsubscribe(success)

SpecPush == InitPush /\ [][Subscribing]_vars

\* The reminders: permission is granted, the worker runs whenever a message
\* is pushed, and the clock moves.
InitReminder ==
    /\ Fresh
    /\ permission = "granted"
    /\ pushSubscription = Existing
    /\ limits = [ops |-> 1, passes |-> 1, restarts |-> 0, time |-> MaxTime,
                 inputs |-> OperationInputs, responses |-> Responses,
                 bodies |-> {NoBody}, offlineOnly |-> FALSE,
                 history |-> FALSE]

Reminding ==
    \/ \E eventId \in EventIds, eventDate \in EventDates,
          reminderTime \in LeadTimes, elapsed \in 0..1, stored \in BOOLEAN :
          scheduleEventReminder(eventId, eventDate, reminderTime, elapsed, stored)
    \/ \E elapsed \in 0..1 : push(PushTag, elapsed)

\* The runtime stays active: whatever the page and the worker can do next is
\* eventually done.
SpecReminder == InitReminder /\ [][Reminding]_vars /\ WF_vars(Reminding)

\* The write calls of the Durable Store.
Store ==
    \/ \E data \in EntityRecords : Put(data)
    \/ \E request \in FailedRequests : AddFailedRequest(request)

SpecStore == Init /\ [][Store]_vars

\* ------------------------------------------------------------ properties
ActivePasses == {p \in 1..MaxPasses : Active(p)}

Origins == 1..MaxOps

InQueue(o) == \E i \in 1..Len(syncQueue) : heap[syncQueue[i]].origin = o

Resolved(o) == events["SYNC_SUCCESS"][o] > 0 \/ events["SYNC_FAILED"][o] > 0

\* A pass issues a fetch in this step.
Issues(p) == passes'[p].pc = "fetch" /\ passes[p] # passes'[p]

\* The fetch of pass p settles in this step.
Settles(p) == passes[p].pc = "fetch" /\ passes'[p].pc \in {"merge", "remove", "update"}

\* C1: at most one performSync pass is active in every reachable state, so a
\* trigger that arrives during a pass starts no second pass and sends nothing.
C1_MutualExclusion == Cardinality(ActivePasses) <= 1

\* C2: once an operation is resolved (an event was emitted for it), it is in
\* the in-memory queue no more and no record of it is left in the
\* failed-requests partition.
C2_RemovedOnce ==
    \A o \in Origins :
        Resolved(o) => ~InQueue(o) /\ \A r \in store : r.origin # o

\* C3: for one operation the manager emits SYNC_SUCCESS or SYNC_FAILED at most
\* once, and never both. Only operations that were never read back from the
\* store (they keep the id addOperation gave them) are counted.
C3_OneOutcome ==
    \A o \in Origins :
        (\A h \in 1..Len(heap) : heap[h].origin = o => heap[h].id.type = "sync")
        => events["SYNC_SUCCESS"][o] + events["SYNC_FAILED"][o] <= 1

\* C4: no pass issues a fetch for an operation whose retryCount has reached
\* maxRetries.
C4_NoAttemptWhenExhausted ==
    [][\A p \in 1..MaxPasses :
          Issues(p) =>
             LET op == heap'[passes'[p].snap[passes'[p].idx]]
             IN op.retryCount < op.maxRetries]_vars

\* C5: when the fetch of an operation answers a 4xx other than 408 and 429,
\* retryCount stays as it is and the pass takes the branch that removes the
\* operation and announces SYNC_FAILED, the one that schedules no retry.
C5_ClientErrorTerminal ==
    [][\A p \in 1..MaxPasses :
          Settles(p) /\ passes'[p].status = "client" =>
             /\ heap'[current(p)].retryCount = heap[current(p)].retryCount
             /\ passes'[p].pc = "remove"
             /\ passes'[p].res = "SYNC_FAILED"]_vars

\* C6: operations are enqueued offline. When the only request sent so far for
\* an operation is answered with a 2xx, the pass goes on to remove the
\* operation as synced: it neither counts a failure nor gives the operation up.
C6_OneRequestOn2xx ==
    \A p \in ActivePasses :
        LET op == heap[current(p)]
        IN passes[p].status \in {"ok", "nojson"} /\ sent[op.origin] = 1
           => /\ passes[p].pc \in {"merge", "remove"}
              /\ passes[p].res # "SYNC_FAILED"
              /\ op.retryCount = 0

\* C7: every failure is a retryable one. When k >= 1 attempts of an operation
\* have failed, k below maxRetries, and the next one is answered with a 2xx,
\* the operation goes on to be synced, retryCount is still k, and k + 1
\* requests were sent for it.
C7_SyncedAfterRetries ==
    [][\A p \in 1..MaxPasses :
          LET op == heap[current(p)]
          IN Settles(p) /\ passes'[p].status \in {"ok", "nojson"}
             /\ op.retryCount >= 1 /\ op.retryCount < op.maxRetries
             => /\ passes'[p].pc = "merge"
                /\ heap'[current(p)].retryCount = op.retryCount
                /\ (op.retryCount + 1 < EventCap
                       => sent[op.origin] = op.retryCount + 1)]_vars

\* C8: in the sortedQueue of a pass, whatever the queue held when the pass
\* started, no operation already attempted comes after an operation of higher
\* priority, or of equal priority and an earlier timestamp.
C8_PriorityThenFifo ==
    \A p \in ActivePasses :
        \A i \in 1..passes[p].idx, j \in 1..Len(passes[p].snap) :
            LET a == heap[passes[p].snap[i]]
                b == heap[passes[p].snap[j]]
                rank == [high |-> 3, medium |-> 2, low |-> 1]
            IN (rank[b.priority] > rank[a.priority]
                \/ (b.priority = a.priority /\ b.timestamp < a.timestamp))
               => j < i

\* A pass has attempted two operations in the reverse of their queue order:
\* the one enqueued later, of higher priority, first.
C8_Witness ==
    \E p \in ActivePasses :
        /\ passes[p].idx = 2
        /\ passes[p].snap[1] > passes[p].snap[2]
        /\ heap[passes[p].snap[1]].priority = "high"
        /\ heap[passes[p].snap[2]].priority = "low"

ExpectedDelay(n) ==
    CASE n = 1 -> 1000
      [] n = 2 -> 5000
      [] n = 3 -> 15000
      [] n = 4 -> 30000
      [] OTHER -> 60000

\* C9: a failure with retries left adds one to retryCount, and the n-th
\* failure of an operation schedules the n-th delay of 1s, 5s, 15s, 30s, 60s
\* (60s from the fifth on).
C9_BackoffSequence ==
    [][\A p \in 1..MaxPasses :
          /\ Settles(p) /\ passes'[p].pc = "update"
             => heap'[current(p)].retryCount = heap[current(p)].retryCount + 1
          /\ passes[p].pc = "update" /\ passes'[p].pc # "update"
             => ExpectedDelay(passes[p].nth) \in timers']_vars

Handled == calls' # calls

IsApiGet(request) == request.method = "GET" /\ startsWith(request.path, <<"api">>)

IsStaticGet(request) ==
    /\ request.method = "GET" /\ ~startsWith(request.path, <<"api">>)
    /\ (startsWith(request.path, <<"_next", "static">>) \/ hasDot(request.path))

IsNavigation(request) ==
    request.method = "GET" /\ ~IsApiGet(request) /\ ~IsStaticGet(request)

IsMutation(request) ==
    request.method # "GET" /\ startsWith(request.path, <<"api">>)

\* C11: at a page reload every operation that is in the queue has a record in
\* the failed-requests partition, from which the next initialize loads it: a
\* reload loses no unresolved operation.
C11_RestartKeepsPending ==
    [][restarts' # restarts =>
          \A h \in Range(syncQueue) :
              \E r \in store : r.origin = heap[h].origin]_vars

\* C12: the promise a fetch handler gives respondWith never rejects, whatever
\* the network and the cache and database calls do.
C12_HandlersNeverReject == [][Handled => result'.response # Rejected]_vars

\* C13: every cache write succeeds. Once no write is running, the entry of a
\* cacheable API request in the dynamic cache is the response the network
\* gave to the last call for it.
C13_CacheEqualsNetwork ==
    /\ IsApiGet(result.request)
    /\ \E route \in CACHE_API_ROUTES : includes(result.request.path, route)
    /\ ok(result.network)
    /\ puts = {}
    => caches[DYNAMIC_CACHE][result.request.path] = result.network

C15_NetworkResponseKept ==
    [][Handled /\ result'.request.method = "GET" /\ result'.fetched
       /\ ok(result'.network)
       => result'.response = result'.network]_vars

C18_MutationQueued ==
    [][Handled /\ IsMutation(result'.request)
       => IF result'.network = NetworkFailure
          THEN /\ result'.response = [status |-> 202, body |-> "queued: true"]
               /\ Cardinality(store') = Cardinality(store) + 1
          ELSE /\ result'.response = result'.network
               /\ store' = store]_vars

\* C19: no step removes a cached entity whose syncStatus is pending.
C19_PendingNeverEvicted ==
    [][\A e \in entities :
          e.syncStatus = "pending"
          => \E x \in entities' : x.store = e.store /\ x.id = e.id]_vars

\* C20: a sweep that removes an entity leaves no event, order or ticket older
\* than its cutoff, and keeps every entity that is not older.
C20_SweepRemovesExpired ==
    [][entities' # entities /\ entities' \subseteq entities
       => /\ \A e \in entities' : e.cachedAt >= now' - MaxAge
          /\ \A e \in entities : e.cachedAt >= now' - MaxAge => e \in entities']_vars

\* C21: a write call that repeats the call before it (the same record under
\* the same key, the same request for the sync queue) leaves every partition
\* as the first call left it.
C21_PutIdempotent ==
    [][lastPut' = lastPut /\ lastPut # NoPut
       => store' = store /\ entities' = entities]_vars

\* C22: an operation in the queue keeps the id, type, action, endpoint,
\* method, priority, maxRetries and timestamp it was enqueued with, and its
\* retryCount never goes down, whatever the step: a drain, a failure, or the
\* load of the queue from the store.
C22_ImmutableButRetryCount ==
    [][\A i \in 1..Len(syncQueue), j \in 1..Len(syncQueue') :
          LET a == heap[syncQueue[i]]
              b == heap'[syncQueue'[j]]
          IN a.origin = b.origin
             => /\ b.id = a.id
                /\ b.type = a.type
                /\ b.action = a.action
                /\ b.endpoint = a.endpoint
                /\ b.method = a.method
                /\ b.priority = a.priority
                /\ b.maxRetries = a.maxRetries
                /\ b.timestamp = a.timestamp
                /\ b.retryCount >= a.retryCount]_vars

\* C23: the success handler has a branch for the type of every operation
\* whose successful response it is given: order, payment, ticket, cart and
\* user-preference.
C23_ExhaustiveMerge ==
    [][\A p \in 1..MaxPasses :
          passes[p].pc = "merge" /\ passes'[p].pc = "remove"
          => heap[current(p)].type \in HandledTypes]_vars

\* C24: a stored reminder whose time has come is eventually shown and removed
\* from scheduled-notifications, and no reminder is shown twice.
C24_ReminderFiredOnce ==
    /\ [](\A id \in ReminderIds : shown[id] <= 1)
    /\ \A id \in ReminderIds :
          (\E r \in scheduled : r.id = id /\ r.reminderTime <= now)
          ~> (shown[id] = 1 /\ \A r \in scheduled : r.id # id)

\* C25: in a step that posts a subscription to the server, however the post
\* ends, the manager holds the platform's subscription afterwards.
C25_TransmitFailureKeepsSubscription ==
    [][Len(transmitted') > Len(transmitted)
       => subscription' # Null /\ subscription' = pushSubscription']_vars

\* A post failed with a network error and the manager is subscribed.
C25_Witness ==
    /\ transmitted # <<>>
    /\ transmitted[Len(transmitted)] = NetworkError
    /\ permission = "granted"
    /\ subscription = Created

\* C26: a requestPermission call whose permission result is not granted
\* creates no subscription, posts nothing and leaves the manager as it was;
\* a call after which the manager is subscribed, having been unsubscribed,
\* got granted.
C26_SubscribeNeedsPermission ==
    [][asked' # asked
       => /\ permission' # "granted"
             => /\ subscription' = subscription
                /\ pushSubscription' = pushSubscription
                /\ transmitted' = transmitted
          /\ subscription = Null /\ subscription' # Null
             => permission' = "granted"]_vars

\* The platform has answered denied to a call of a manager whose
\* registration is ready: there is no subscription and nothing was posted.
C26_Witness ==
    /\ asked > 0
    /\ swRegistration
    /\ permission = "denied"
    /\ subscription = Null
    /\ pushSubscription = Null
    /\ transmitted = <<>>

\* C27: when the device ends up online for good, every operation added is
\* eventually resolved, as synced or as failed, and out of the queue.
C27_EventualDelivery ==
    <>[]online
    => \A o \in Origins : (nextOp > o) ~> (Resolved(o) /\ ~InQueue(o))

\* C28: no two requests for the same queued operation are in flight at once.
\* Only passes of the page send requests: the service worker's replay throws
\* before its first fetch.
C28_NoConcurrentDelivery ==
    \A p, q \in ActivePasses :
        p # q /\ passes[p].pc = "fetch" /\ passes[q].pc = "fetch"
        => heap[current(p)].origin # heap[current(q)].origin

\* C29: once initialize has completed and no addOperation, pass or clear is
\* under way, the queue holds each operation as many times as the
\* failed-requests partition holds a record of it, and at most once.
C29_QueueMirrorsStore ==
    initialized /\ adds = {} /\ ActivePasses = {} /\ ~clearing
    => \A o \in Origins :
          LET queued == {i \in 1..Len(syncQueue) : heap[syncQueue[i]].origin = o}
              records == {r \in store : r.origin = o}
          IN Cardinality(queued) = Cardinality(records)
             /\ Cardinality(queued) <= 1

\* C30: once a clearQueue has completed, no operation enqueued before its
\* call is in the queue or has a record in failed-requests, and no pass
\* sends a request for such an operation.
C30_ClearCancels ==
    [][\A o \in cleared'.done :
          /\ \A i \in 1..Len(syncQueue') : heap'[syncQueue'[i]].origin # o
          /\ \A r \in store' : r.origin # o
          /\ \A p \in 1..MaxPasses :
                Issues(p) => heap'[passes'[p].snap[passes'[p].idx]].origin # o]_vars

\* C31: a drain is blocked by backoff. While the retry timer that performSync
\* set after an operation's latest failure is still pending, no pass issues a
\* network request for that operation, whatever trigger started the pass.
C31_BackoffBlocksDrain ==
    [][\A p \in 1..MaxPasses :
          Issues(p) =>
             passes'[p].snap[passes'[p].idx] \notin (backoff \cap backoff')]_vars

\* C32: no pass starts while the device reports offline. From an offline state
\* no step starts a pass; a scheduleSync timer that fires then sends nothing
\* and leaves the passes, the queue and the operations as they are; forcSync
\* throws 'Cannot sync while offline' and sends nothing, and the queue, the
\* operations and their records stay as they are.
C32_NoPassStartsOffline ==
    [][~online =>
          /\ \A p \in 1..MaxPasses : ~Active(p) => passes'[p] = passes[p]
          /\ timers' # timers /\ timers' \subseteq timers /\ restarts' = restarts
             => UNCHANGED <<passes, sent, syncQueue, heap, store>>
          /\ forcSyncOutcome(online) = "Cannot sync while offline"
          /\ forcSync => UNCHANGED <<passes, sent, syncQueue, heap, store>>]_vars

\* C32 happens: the only operation failed once and its retry timer has fired,
\* yet it was sent once only and no pass is running: the timer fired offline.
C32_Witness ==
    /\ ~online
    /\ nextOp = 2
    /\ restarts = 0
    /\ \E i \in 1..Len(syncQueue) :
          /\ heap[syncQueue[i]].origin = 1
          /\ heap[syncQueue[i]].retryCount = 1
    /\ sent[1] = 1
    /\ timers = {}
    /\ adds = {}
    /\ ActivePasses = {}

\* C33: every record of the failed-requests partition, whichever component
\* wrote it, carries a numeric retryCount and a numeric maxRetries.
C33_RecordsCarryRetryFields ==
    \A r \in store :
        /\ {"retryCount", "maxRetries"} \subseteq DOMAIN r
        /\ r.retryCount \in Nat
        /\ r.maxRetries \in Nat

OperationIds ==
    {SyncId(n) : n \in 1..(MaxOps + 1)} \cup {toString(k) : k \in 1..MaxKeys}

\* C35: for a queued operation that has failed at least once and has retries
\* left, once performSync has scheduled the retry of its latest failure,
\* getRetryInfo(id).nextRetryIn is the delay of that retry; for an id that is
\* not in the queue getRetryInfo returns null.
C35_RetryInfoMatchesSchedule ==
    /\ \A i \in 1..Len(syncQueue) :
          LET operation == heap[syncQueue[i]]
          IN operation.retryCount >= 1
             /\ operation.retryCount < operation.maxRetries
             /\ (\A p \in ActivePasses :
                   ~(passes[p].pc = "update" /\ current(p) = syncQueue[i]))
             => getRetryInfo(operation.id).nextRetryIn
                   = retryDelay(operation.retryCount)
    /\ \A id \in OperationIds :
          (\A i \in 1..Len(syncQueue) : heap[syncQueue[i]].id # id)
             => getRetryInfo(id) = Null

====
